---- MODULE Spec2Model ----
(***************************************************************************)
(* Timestamps Smith (src/app.py): the short-week classifier                *)
(* get_short_weeks_with_holidays, the timestamp generator                  *)
(* generate_timestamps and the part of main that validates the range and   *)
(* dispatches the three buttons.                                           *)
(*                                                                         *)
(* Dates are day numbers; day 0 is a Monday, so date.weekday() is d % 7.   *)
(* A datetime is a number of minutes since 00:00 of day 0, so that         *)
(* datetime + timedelta(minutes=n) is integer addition and .date(), .hour  *)
(* and .minute are quotients and remainders.                               *)
(*                                                                         *)
(* The trading calendar is the collaborator pandas_market_calendars: the   *)
(* NYSE calendar main uses trades Monday to Friday except on holidays, so  *)
(* a calendar is given by its set of holidays.                             *)
(***************************************************************************)
EXTENDS Integers, Sequences, FiniteSets

VARIABLES
    holidays,             \* the calendar: cal.holidays().holidays
    start_date,           \* widget "Start Date"
    end_date,             \* widget "End Date"
    interval_mins,        \* widget "Interval (mins)"
    selected_months,      \* widget "Select Months"
    selected_weekdays,    \* widget "Select Days of Week", as weekday numbers
    selected_week_types,  \* widget "Select Week Types"
    pc,                   \* position: "idle", "for", "while", "done"
    shown,                \* what main has rendered on the page
    short_weeks,          \* result of get_short_weeks_with_holidays
    trading_schedule,     \* generate_timestamps: cal.schedule(start, end)
    short_week_dates,     \* generate_timestamps: local set
    week_before_short_dates,
    regular_week_dates,
    valid_dates,
    day_idx,              \* position of the for loop in trading_schedule
    current_time,         \* the while loop's current_time
    timestamps,           \* the list generate_timestamps builds
    sorted_dates          \* "Show Dates Only": the sorted unique dates

vars == <<holidays, start_date, end_date, interval_mins, selected_months,
          selected_weekdays, selected_week_types, pc, shown, short_weeks,
          trading_schedule, short_week_dates, week_before_short_dates,
          regular_week_dates, valid_dates, day_idx, current_time,
          timestamps, sorted_dates>>

inputs == <<holidays, start_date, end_date, interval_mins, selected_months,
            selected_weekdays, selected_week_types>>

genLocals == <<trading_schedule, short_week_dates, week_before_short_dates,
               regular_week_dates, valid_dates, day_idx, current_time,
               timestamps>>

----------------------------------------------------------------------------
(* Bounds of the model. *)

\* number of Monday-to-Sunday weeks the calendar and the ranges span
NumWeeks == 3

\* the while loop of a call that never ends is followed for this many records
MaxRecords == 250

LastDay == 7 * NumWeeks - 1

Days == 0 .. LastDay

----------------------------------------------------------------------------
(* Dates and datetimes. *)

\* date.weekday(): 0 = Monday ... 6 = Sunday
Weekday(d) == d % 7

\* date.month. Day 0 is Monday 2023-12-18, so day 14 is 2024-01-01.
Month(d) == IF d < 14 THEN 12 ELSE 1

\* datetime.combine(d, time(hour=h, minute=m))
Combine(d, h, m) == d * 1440 + h * 60 + m

DateOf(t) == t \div 1440

HourOf(t) == (t % 1440) \div 60

MinuteOf(t) == t % 60

\* current_time.strftime("%Y-%m-%d %H:%M"): the date field, the hour field
\* and the minute field of the string
Strftime(t) == <<DateOf(t), HourOf(t), MinuteOf(t)>>

\* timestamp.split(' ')[0]
DatePart(ts) == ts[1]

Min(S) == CHOOSE x \in S : \A y \in S : x <= y

RECURSIVE Sorted(_)
\* sorted(list(S))
Sorted(S) == IF S = {} THEN <<>> ELSE <<Min(S)>> \o Sorted(S \ {Min(S)})

Range(s) == {s[i] : i \in 1 .. Len(s)}

----------------------------------------------------------------------------
(* The trading calendar. *)

IsSession(d) == Weekday(d) < 5 /\ d \notin holidays

\* cal.schedule(start_date=a, end_date=b).index: the sessions in [a, b],
\* ascending
Schedule(a, b) == Sorted({d \in a .. b : IsSession(d)})

----------------------------------------------------------------------------
(* get_short_weeks_with_holidays *)

ExtendedStart(start) == start - Weekday(start)

ExtendedEnd(end) == end + (6 - Weekday(end))

\* a bug: the week is counted among the sessions of the query range only
FullWeekTradingDaysClipped(schedule, week_start, week_end) ==
    SelectSeq(schedule, LAMBDA d : /\ d >= week_start /\ d <= week_end
                                   /\ start_date <= d /\ d <= end_date)

\* the rows of the schedule whose date lies in [week_start, week_end]
FullWeekTradingDays(schedule, week_start, week_end) ==
    SelectSeq(schedule, LAMBDA d : d >= week_start /\ d <= week_end)

WeekHolidays(week_start, week_end) ==
    {h \in holidays : week_start <= h /\ h <= week_end}

WeekOverlapsRange(week_start, week_end, start, end) ==
    week_start <= end /\ week_end >= start

FilteredTradingDates(full_week_trading_days, start, end) ==
    SelectSeq(full_week_trading_days, LAMBDA d : start <= d /\ d <= end)

IsShortWeek(full_week_trading_days, week_overlaps_range) ==
    /\ Len(full_week_trading_days) < 5
    /\ Len(full_week_trading_days) > 0
    /\ week_overlaps_range

RECURSIVE WeekLoop(_, _, _, _, _, _)
\* the while loop: one iteration per week, from current_date to extended_end
WeekLoop(current_date, extended_end, schedule, start, end, acc) ==
    IF current_date <= extended_end
    THEN LET week_start == current_date - Weekday(current_date)
             week_end == week_start + 4
             full == FullWeekTradingDays(schedule, week_start, week_end)
             overlaps == WeekOverlapsRange(week_start, week_end, start, end)
             filtered == FilteredTradingDates(full, start, end)
             week == [week_start |-> week_start,
                      week_end |-> week_end,
                      trading_days |-> Len(full),
                      trading_dates |-> filtered,
                      holidays |-> WeekHolidays(week_start, week_end)]
             next == IF IsShortWeek(full, overlaps) /\ filtered # <<>>
                     THEN Append(acc, week)
                     ELSE acc
         IN  WeekLoop(week_start + 7, extended_end, schedule, start, end, next)
    ELSE acc

get_short_weeks_with_holidays(start, end) ==
    LET extended_start == ExtendedStart(start)
        extended_end == ExtendedEnd(end)
        schedule == Schedule(extended_start, extended_end)
    IN  WeekLoop(extended_start, extended_end, schedule, start, end, <<>>)

----------------------------------------------------------------------------
(* generate_timestamps: the week-type date sets *)

WeekTypes == {"Short weeks", "Week before short week", "Regular weeks"}

\* selected_week_types and len(selected_week_types) < 3
WeekFilterActive(types) == types # {} /\ Cardinality(types) < 3

ShortWeekDates(weeks) ==
    UNION {Range(weeks[i].trading_dates) : i \in 1 .. Len(weeks)}

PrevWeekStart(week_start) == week_start - 7

PrevWeekTrading(schedule, week_start) ==
    SelectSeq(schedule, LAMBDA d : /\ d >= PrevWeekStart(week_start)
                                   /\ d <= PrevWeekStart(week_start) + 4)

\* a bug: a week that is short itself is not taken as a week before
WeekBeforeShortDatesNotShort(weeks, schedule, start, end) ==
    UNION {{d \in Range(PrevWeekTrading(schedule, weeks[i].week_start)) :
               start <= d /\ d <= end} : i \in 1 .. Len(weeks)}
    \ ShortWeekDates(weeks)

WeekBeforeShortDates(weeks, schedule, start, end) ==
    UNION {{d \in Range(PrevWeekTrading(schedule, weeks[i].week_start)) :
               start <= d /\ d <= end} : i \in 1 .. Len(weeks)}

\* a bug: the weeks before short weeks are not subtracted
RegularWeekDatesNotBefore(all_trading_dates, short, before) ==
    all_trading_dates \ short

RegularWeekDates(all_trading_dates, short, before) ==
    (all_trading_dates \ short) \ before

ValidDates(types, short, before, regular) ==
    (IF "Short weeks" \in types THEN short ELSE {})
    \cup (IF "Week before short week" \in types THEN before ELSE {})
    \cup (IF "Regular weeks" \in types THEN regular ELSE {})

----------------------------------------------------------------------------
(* generate_timestamps: the filters of the for loop and the while loop *)

WeekTypeRejected(d) ==
    WeekFilterActive(selected_week_types) /\ d \notin valid_dates

\* a bug: the month selection is ignored
MonthRejectedNever(d) == FALSE

MonthRejected(d) == selected_months # {} /\ Month(d) \notin selected_months

WeekdayRejected(d) ==
    selected_weekdays # {} /\ Weekday(d) \notin selected_weekdays

StartTime(d) == Combine(d, 9, 30)

EndTime(d) == Combine(d, 15, 59)

\* a bug: the cutoff is exclusive
LoopContinuesExclusive(t, end_time) == t < end_time

\* while current_time <= end_time
LoopContinues(t, end_time) == t <= end_time

\* a bug: no shift at the open
OpenShiftNone(t) == t

\* if current_time is exactly 9:30, change it to 9:32
OpenShift(t) == IF HourOf(t) = 9 /\ MinuteOf(t) = 30 THEN t + 2 ELSE t

\* a bug: the record is put in front
AppendRecordFront(list, record) == <<record>> \o list

\* timestamps.append(...)
AppendRecord(list, record) == Append(list, record)

----------------------------------------------------------------------------
(* main *)

\* a bug: no range check
ValidRangeAlways(start, end) == TRUE

\* main returns after st.error when start_date > end_date
ValidRange(start, end) == ~(start > end)

\* "Show Short Weeks with Holidays"
ShowShortWeeks ==
    /\ pc = "idle"
    /\ ValidRange(start_date, end_date)
    /\ short_weeks' = get_short_weeks_with_holidays(start_date, end_date)
    /\ shown' = IF short_weeks' # <<>> THEN "weeks" ELSE "no_weeks"
    /\ pc' = "done"
    /\ UNCHANGED <<inputs, genLocals, sorted_dates>>

\* the range check of main
InvalidRange ==
    /\ pc = "idle"
    /\ ~ValidRange(start_date, end_date)
    /\ shown' = "error"
    /\ pc' = "done"
    /\ UNCHANGED <<inputs, genLocals, short_weeks, sorted_dates>>

\* "Generate Timestamps" or "Show Dates Only": the call of
\* generate_timestamps up to its for loop
CallGenerate ==
    /\ pc = "idle"
    /\ ValidRange(start_date, end_date)
    /\ timestamps' = <<>>
    /\ trading_schedule' = Schedule(start_date, end_date)
    /\ IF WeekFilterActive(selected_week_types)
       THEN /\ short_weeks' =
                  get_short_weeks_with_holidays(start_date, end_date)
            /\ short_week_dates' = ShortWeekDates(short_weeks')
            /\ week_before_short_dates' =
                  WeekBeforeShortDates(short_weeks', trading_schedule',
                                       start_date, end_date)
            /\ regular_week_dates' =
                  RegularWeekDates(Range(trading_schedule'),
                                   short_week_dates',
                                   week_before_short_dates')
            /\ valid_dates' =
                  ValidDates(selected_week_types, short_week_dates',
                             week_before_short_dates', regular_week_dates')
       ELSE UNCHANGED <<short_weeks, short_week_dates,
                        week_before_short_dates, regular_week_dates,
                        valid_dates>>
    /\ day_idx' = 1
    /\ pc' = "for"
    /\ UNCHANGED <<inputs, shown, current_time, sorted_dates>>

\* the filters at the top of the for loop: the day is skipped (continue)
Rejected(d) ==
    WeekTypeRejected(d) \/ MonthRejected(d) \/ WeekdayRejected(d)

RECURSIVE NextAdmitted(_)
\* the for loop from position i of trading_schedule on: the position of the
\* first day that is not skipped, Len(trading_schedule) + 1 when every
\* remaining day is skipped
NextAdmitted(i) ==
    IF i > Len(trading_schedule) THEN i
    ELSE IF Rejected(trading_schedule[i]) THEN NextAdmitted(i + 1)
    ELSE i

\* control is at the top of the for loop: generate_timestamps has just
\* reached it, or the while loop of the current day has ended
AtFor ==
    \/ pc = "for"
    \/ /\ pc = "while"
       /\ ~LoopContinues(current_time, EndTime(trading_schedule[day_idx]))

\* the position the for loop goes on from
ForPosition == IF pc = "for" THEN day_idx ELSE day_idx + 1

\* the for loop skips the rejected days and enters the while loop of the
\* next admitted day
NextDay ==
    /\ AtFor
    /\ NextAdmitted(ForPosition) <= Len(trading_schedule)
    /\ day_idx' = NextAdmitted(ForPosition)
    /\ current_time' = StartTime(trading_schedule[day_idx'])
    /\ pc' = "while"
    /\ UNCHANGED <<inputs, shown, short_weeks, trading_schedule,
                   short_week_dates, week_before_short_dates,
                   regular_week_dates, valid_dates, timestamps,
                   sorted_dates>>

\* one iteration of the while loop
Tick ==
    /\ pc = "while"
    /\ LoopContinues(current_time, EndTime(trading_schedule[day_idx]))
    /\ Len(timestamps) < MaxRecords
    /\ timestamps' = AppendRecord(timestamps, Strftime(OpenShift(current_time)))
    /\ current_time' = OpenShift(current_time) + interval_mins
    /\ UNCHANGED <<inputs, pc, shown, short_weeks, trading_schedule,
                   short_week_dates, week_before_short_dates,
                   regular_week_dates, valid_dates, day_idx, sorted_dates>>

\* the for loop ends and generate_timestamps returns to the
\* "Generate Timestamps" branch of main
ReturnGenerate ==
    /\ AtFor
    /\ NextAdmitted(ForPosition) > Len(trading_schedule)
    /\ shown' = IF timestamps # <<>> THEN "table" ELSE "warning"
    /\ pc' = "done"
    /\ UNCHANGED <<inputs, genLocals, short_weeks, sorted_dates>>

\* the for loop ends and generate_timestamps returns to the
\* "Show Dates Only" branch of main
ReturnDatesOnly ==
    /\ AtFor
    /\ NextAdmitted(ForPosition) > Len(trading_schedule)
    /\ IF timestamps # <<>>
       THEN /\ sorted_dates' = Sorted({DatePart(ts) : ts \in Range(timestamps)})
            /\ shown' = "dates"
       ELSE /\ shown' = "warning"
            /\ UNCHANGED sorted_dates
    /\ pc' = "done"
    /\ UNCHANGED <<inputs, genLocals, short_weeks>>

Next ==
    \/ InvalidRange
    \/ ShowShortWeeks
    \/ CallGenerate
    \/ NextDay
    \/ Tick
    \/ ReturnGenerate
    \/ ReturnDatesOnly

----------------------------------------------------------------------------
(* Initial states: the calendar and the widget values of one run of main. *)

\* holidays of one week, as weekdays: none, Monday, Thursday and Friday,
\* the whole week
HolidayPatterns == {{}, {0}, {3, 4}, {0, 1, 2, 3, 4}}

Calendars ==
    {UNION {{7 * w + k : k \in f[w]} : w \in 0 .. NumWeeks - 1} :
        f \in [0 .. NumWeeks - 1 -> HolidayPatterns]}

Fresh ==
    /\ pc = "idle"
    /\ shown = "none"
    /\ short_weeks = <<>>
    /\ trading_schedule = <<>>
    /\ short_week_dates = {}
    /\ week_before_short_dates = {}
    /\ regular_week_dates = {}
    /\ valid_dates = {}
    /\ day_idx = 1
    /\ current_time = 0
    /\ timestamps = <<>>
    /\ sorted_dates = <<>>

\* every calendar and every range, one week-type selection
InitWeeks ==
    /\ holidays \in Calendars
    /\ start_date \in Days
    /\ end_date \in Days
    /\ start_date <= end_date \/ (start_date = 1 /\ end_date = 0)
    /\ interval_mins = 388
    /\ selected_months = 1 .. 12
    /\ selected_weekdays = 0 .. 4
    /\ selected_week_types = {"Short weeks"}
    /\ Fresh

SpecWeeks == InitWeeks /\ [][Next]_vars

\* two calendars (a holiday on Wednesday of the second week; holidays in
\* the first and in the second week), every range, inverted ranges
\* included, and every combination of filter selections
FilterCalendars == {{9}, {2, 7}}

MonthSelections == {{}, {1}, 1 .. 12}

WeekdaySelections == {{}, {0, 2}, 0 .. 4}

InitFilter ==
    /\ holidays \in FilterCalendars
    /\ start_date \in Days
    /\ end_date \in Days
    /\ interval_mins = 240
    /\ selected_months \in MonthSelections
    /\ selected_weekdays \in WeekdaySelections
    /\ selected_week_types \in SUBSET WeekTypes
    /\ Fresh

SpecFilter == InitFilter /\ [][Next]_vars

\* longest range of the runs that vary the interval, in days after start_date
MaxSpan == 1

GridIntervals == {-1, 0, 5, 9, 43, 100, 129, 387, 388, 1500}

\* every interval, short ranges starting in the first week, all filters at
\* their defaults
InitGrid ==
    /\ holidays \in {{}, {1}}
    /\ start_date \in 0 .. 6
    /\ end_date \in Days
    /\ \/ start_date <= end_date /\ end_date - start_date <= MaxSpan
       \/ start_date = 1 /\ end_date = 0
    /\ interval_mins \in GridIntervals
    /\ selected_months = 1 .. 12
    /\ selected_weekdays = 0 .. 4
    /\ selected_week_types = WeekTypes
    /\ Fresh

SpecGrid == InitGrid /\ [][Next]_vars

----------------------------------------------------------------------------
(* What the properties speak of, stated from the calendar alone. *)

InRange(d) == start_date <= d /\ d <= end_date

SessionsInRange == {d \in Days : IsSession(d) /\ InRange(d)}

Mondays == {d \in Days : d % 7 = 0}

WeekSessions(w) == {d \in w .. w + 4 : IsSession(d)}

\* the Monday-Friday week starting on w is short and has a session in range
ShortInRange(w) ==
    /\ Cardinality(WeekSessions(w)) \in 1 .. 4
    /\ w <= end_date /\ w + 4 >= start_date
    /\ \E d \in WeekSessions(w) : InRange(d)

\* the Mondays of the short weeks with a session in range
ShortMondays == {w \in Mondays : ShortInRange(w)}

\* d lies in one of the weeks starting on the Mondays sm
InShortWeek(sm, d) == d - (d % 7) \in sm

\* d lies in the week before one of the weeks starting on the Mondays sm
InWeekBeforeShort(sm, d) == \E w \in sm : w - 7 <= d /\ d <= w - 3

\* generate_timestamps has returned to main
Returned == shown \in {"table", "warning", "dates"}

\* generate_timestamps has been called
Called == pc \in {"for", "while"} \/ Returned

\* the three week-type date sets have been computed
Classified == Called /\ WeekFilterActive(selected_week_types)

\* get_short_weeks_with_holidays has returned
WeeksComputed == shown \in {"weeks", "no_weeks"} \/ Classified

OutputDates == {DatePart(ts) : ts \in Range(timestamps)}

DayRecords(d) == SelectSeq(timestamps, LAMBDA ts : DatePart(ts) = d)

\* the clock time of a record, in minutes after midnight
Clock(ts) == ts[2] * 60 + ts[3]

----------------------------------------------------------------------------
(* C1 *)

C1_RegularApart ==
    /\ regular_week_dates \cap short_week_dates = {}
    /\ regular_week_dates \cap week_before_short_dates = {}
    /\ short_week_dates \cup week_before_short_dates \cup regular_week_dates
         = SessionsInRange

\* C1, as amended: once the week-type filter is active, the regular dates
\* are disjoint from the short-week dates and from the week-before dates,
\* and the three sets together are all trading sessions in [start, end].
C1_Partition == Classified => C1_RegularApart

\* C1, as claimed: the three sets are pairwise disjoint and their union is
\* the set of all trading sessions in [start, end].
C1_PairwiseDisjoint ==
    Classified =>
        /\ C1_RegularApart
        /\ short_week_dates \cap week_before_short_dates = {}

C1_Witness ==
    /\ Classified
    /\ short_week_dates # {}
    /\ week_before_short_dates # {}
    /\ regular_week_dates # {}
    /\ short_week_dates \cap week_before_short_dates # {}

----------------------------------------------------------------------------
(* C5 *)

\* C5: a descriptor is returned for a Monday-Friday week exactly when the
\* week has 1 to 4 sessions, overlaps [start, end] and has a session in
\* [start, end]; a descriptor starts on a Monday, ends four days later,
\* counts the sessions of the full week and lists, in order, the sessions
\* of the week that lie in [start, end], of which there is at least one.
C5_ShortWeekDescriptors ==
    WeeksComputed =>
        /\ \A w \in Mondays :
              (\E i \in 1 .. Len(short_weeks) : short_weeks[i].week_start = w)
                  <=> ShortInRange(w)
        /\ \A i \in 1 .. Len(short_weeks) :
              LET week == short_weeks[i]
              IN  /\ week.week_start \in Mondays
                  /\ week.week_end = week.week_start + 4
                  /\ week.trading_days =
                        Cardinality(WeekSessions(week.week_start))
                  /\ week.trading_days \in 1 .. 4
                  /\ week.trading_dates # <<>>
                  /\ week.trading_dates =
                        Sorted({d \in WeekSessions(week.week_start) :
                                   InRange(d)})
                  /\ \A j \in 1 .. i - 1 :
                        short_weeks[j].week_start < week.week_start

\* two descriptors, one of them with its dates clipped to the range, and a
\* short week that overlaps the range without a session in it
C5_Witness ==
    /\ WeeksComputed
    /\ Len(short_weeks) >= 2
    /\ \E i \in 1 .. Len(short_weeks) :
          Len(short_weeks[i].trading_dates) < short_weeks[i].trading_days
    /\ \E w \in Mondays :
          /\ Cardinality(WeekSessions(w)) \in 1 .. 4
          /\ w <= end_date /\ w + 4 >= start_date
          /\ ~ShortInRange(w)

----------------------------------------------------------------------------
(* C10 *)

\* C10: the week-before dates are exactly the sessions in [start, end] of
\* the week preceding a returned short week, whatever that week is itself,
\* and the short-week dates are the sessions in [start, end] of the
\* returned short weeks; so a date can carry both labels.
C10_WeekBeforeShort ==
    Classified =>
        LET sm == ShortMondays
            sessions == SessionsInRange
        IN  /\ week_before_short_dates =
                  {d \in sessions : InWeekBeforeShort(sm, d)}
            /\ short_week_dates = {d \in sessions : InShortWeek(sm, d)}

\* two short weeks in a row, the first labelled twice, and after them a
\* short week with no session in range, so that the second is not a week
\* before
C10_Witness ==
    /\ Classified
    /\ short_week_dates \cap week_before_short_dates # {}
    /\ \E w \in Mondays :
          /\ Cardinality(WeekSessions(w)) \in 1 .. 4
          /\ w <= end_date
          /\ ~ShortInRange(w)
          /\ \E d \in SessionsInRange :
                w - 7 <= d /\ d <= w - 3 /\ d \notin week_before_short_dates

----------------------------------------------------------------------------
(* C2 *)

WeekTypeOK(sm, d) ==
    \/ selected_week_types \in {{}, WeekTypes}
    \/ "Short weeks" \in selected_week_types /\ InShortWeek(sm, d)
    \/ "Week before short week" \in selected_week_types
          /\ InWeekBeforeShort(sm, d)
    \/ "Regular weeks" \in selected_week_types
          /\ ~InShortWeek(sm, d) /\ ~InWeekBeforeShort(sm, d)

MonthOK(d) == selected_months = {} \/ Month(d) \in selected_months

WeekdayOK(d) == selected_weekdays = {} \/ d % 7 \in selected_weekdays

Admissible ==
    LET sm == ShortMondays
    IN  {d \in SessionsInRange :
            WeekTypeOK(sm, d) /\ MonthOK(d) /\ WeekdayOK(d)}

NoFilter ==
    /\ selected_week_types \in {{}, WeekTypes}
    /\ selected_months \in {{}, 1 .. 12}
    /\ selected_weekdays \in {{}, 0 .. 4}

\* C2: with interval >= 1 the dates of the timestamps are, at every moment,
\* sessions in [start, end] that pass all three filters, and in the
\* returned list they are all of them; selections that are empty or full
\* remove nothing; "Show Dates Only" lists the same dates.
C2_OutputDates ==
    interval_mins >= 1 =>
        LET admissible == Admissible
            output == OutputDates
        IN  /\ output \subseteq admissible
            /\ Returned => output = admissible
            /\ Returned /\ NoFilter => output = SessionsInRange
            /\ shown = "dates" => sorted_dates = Sorted(admissible)

\* a returned list where each of the three filters has rejected a session
C2_Witness ==
    /\ shown = "table"
    /\ interval_mins >= 1
    /\ LET sm == ShortMondays
       IN  /\ \E d \in SessionsInRange : ~WeekTypeOK(sm, d)
           /\ \E d \in SessionsInRange : WeekTypeOK(sm, d) /\ ~MonthOK(d)
           /\ \E d \in SessionsInRange :
                 WeekTypeOK(sm, d) /\ MonthOK(d) /\ ~WeekdayOK(d)

----------------------------------------------------------------------------
(* C8 *)

\* C8: with start > end main reports the range and nothing else happens:
\* no schedule is read, no week descriptor, timestamp or date is produced.
C8_InvalidRange ==
    start_date > end_date =>
        /\ shown \in {"none", "error"}
        /\ pc = "done" <=> shown = "error"
        /\ pc \in {"idle", "done"}
        /\ short_weeks = <<>>
        /\ trading_schedule = <<>>
        /\ timestamps = <<>>
        /\ sorted_dates = <<>>

C8_Witness == start_date > end_date /\ shown = "error"

----------------------------------------------------------------------------
(* C3 *)

\* the record of day d at clock minute m
At(d, m) == <<d, m \div 60, m % 60>>

C3_FirstAndNoOpen(d, records) ==
    /\ records[1] = At(d, 572)
    /\ \A i \in 1 .. Len(records) : Clock(records[i]) # 570

----------------------------------------------------------------------------
(* C4 *)

\* C4: with a positive interval the k-th instant after the first of a date
\* is 09:30 + k * interval.
C4_Unshifted ==
    interval_mins > 0 =>
        \A d \in OutputDates :
            LET records == DayRecords(d)
            IN  \A k \in 1 .. Len(records) - 1 :
                    records[k + 1] = At(d, 570 + k * interval_mins)

----------------------------------------------------------------------------
(* C6 *)

\* C6: in the returned list, and in the list under construction when the
\* interval is positive, the dates never decrease from one record to the
\* next and within a date the clock times never decrease.
C6_Ordering ==
    Returned \/ interval_mins > 0 =>
        \A i \in 1 .. Len(timestamps) - 1 :
            \/ DatePart(timestamps[i]) < DatePart(timestamps[i + 1])
            \/ /\ DatePart(timestamps[i]) = DatePart(timestamps[i + 1])
               /\ Clock(timestamps[i]) <= Clock(timestamps[i + 1])

C6_Witness ==
    /\ shown = "table"
    /\ Cardinality(OutputDates) >= 2
    /\ \A d \in OutputDates : Len(DayRecords(d)) >= 2

----------------------------------------------------------------------------
(* C7 *)

\* C7: with interval <= 0 the while loop is never entered and no timestamp
\* is generated.
C7_Rejected ==
    interval_mins <= 0 => pc # "while" /\ timestamps = <<>>

----------------------------------------------------------------------------
(* C9 *)

\* C9: with a positive interval no instant is after 15:59, and when
\* 09:32 + k * interval = 15:59 for some k, 15:59 is the last instant of
\* every date of the returned list.
C9_Cutoff ==
    interval_mins > 0 =>
        /\ \A i \in 1 .. Len(timestamps) : Clock(timestamps[i]) <= 959
        /\ Returned /\ (\E k \in 0 .. 387 : 572 + k * interval_mins = 959) =>
              \A d \in OutputDates :
                  LET records == DayRecords(d)
                  IN  records[Len(records)] = <<d, 15, 59>>

C9_Witness ==
    /\ shown = "table"
    /\ interval_mins = 43
    /\ Cardinality(OutputDates) >= 2
    /\ timestamps[Len(timestamps)][2] = 15
    /\ timestamps[Len(timestamps)][3] = 59

====
